---- MODULE Spec2Model ----
(***************************************************************************)
(* Model of the two alignment orchestrators of spateo:                     *)
(*   morpho_align      (src/spateo/alignment/morpho_alignment.py:19-108)   *)
(*   morpho_align_ref  (src/spateo/alignment/morpho_alignment.py:112-266)  *)
(*                                                                         *)
(* Samples (AnnData objects) live in a heap and are referred to by their   *)
(* index in it, so that copying a sample and writing to a sample are       *)
(* different things.  Coordinate arrays, fields and diagnostics are        *)
(* symbolic terms: a term records which operation produced the value and   *)
(* from which arguments, so two values are equal exactly when they were    *)
(* computed the same way from the same inputs.                             *)
(***************************************************************************)
EXTENDS Integers, Sequences, FiniteSets, TLC

VARIABLES
    pc,                \* position in the running orchestrator
    fn,                \* which orchestrator was called
    args,              \* the keyword arguments of the call
    heap,              \* the AnnData objects, by identity
    models,            \* the caller's list `models` (object ids)
    models_ref,        \* the caller's list `models_ref`: <<>> is None, <<l>> is the list l
    align_models,      \* local list align_models
    align_models_ref,  \* local list align_models_ref
    pis,               \* local list pis
    pis_ref,           \* local list pis_ref
    iter,              \* what the _iteration generator has still to yield
    i,                 \* loop variable i
    morpho_model,      \* the Morpho_pairwise object of the current pair
    ret,               \* <<>> while nothing was returned, <<value>> after return
    raised,            \* <<>> or <<exception>>: the exception leaving the call
    log,               \* calls made to the collaborators, in order
    logger,            \* the fields of a Logger object (lack.py)
    calls,             \* the namespaced functions and blocks being executed
    progress,          \* a progress_logger generator and what its consumer has seen
    engine,            \* a run of the pairwise registration engine
    loggers,           \* the loggers of the logging library and the Logger objects made
    hook               \* the last call of Logger.request_report_hook

\* the orchestrators' state
orchVars == <<pc, fn, args, heap, models, models_ref, align_models, align_models_ref,
              pis, pis_ref, iter, i, morpho_model, ret, raised, log>>

\* the state of the other components
others == <<logger, calls, progress, engine, loggers, hook>>

vars == <<orchVars, others>>

----------------------------------------------------------------------------
\* Bounds of the model.

\* longest list of samples handed to an orchestrator
MaxN == 3

\* largest number of points of a sample
MaxPts == 2

----------------------------------------------------------------------------
\* Values: symbolic terms.

T(op, k, a) == [op |-> op, k |-> k, args |-> a]

\* Python's None, and an obsm / uns slot that does not exist
NoneT == T("None", 0, <<>>)

\* the raw coordinate array of the k-th sample (0-based) of a caller's list
RawCoord(chain, k) == T(chain, k, <<>>)

ObsmKeys == {"spatial", "spatial_rigid", "spatial_nonrigid",
             "align_spatial", "align_spatial_rigid", "align_spatial_nonrigid"}

UnsKeys == {"iter_spatial", "VecFld_morpho"}

\* f"{key_added}_rigid"
RigidKey(key_added) ==
    CASE key_added = "spatial" -> "spatial_rigid"
      [] key_added = "align_spatial" -> "align_spatial_rigid"

\* f"{key_added}_nonrigid"
NonrigidKey(key_added) ==
    CASE key_added = "spatial" -> "spatial_nonrigid"
      [] key_added = "align_spatial" -> "align_spatial_nonrigid"

\* a sample as the caller supplies it: its raw coordinate under "spatial"
InputSample(chain, k, n) ==
    [obsm |-> [key \in ObsmKeys |-> IF key = "spatial" THEN RawCoord(chain, k) ELSE NoneT],
     uns  |-> [key \in UnsKeys |-> NoneT],
     n    |-> n]

SetObsm(s, key, v) == [s EXCEPT !.obsm[key] = v]

SetUns(s, key, v) == [s EXCEPT !.uns[key] = v]

\* the ids lo, lo+1, ..., lo+n-1 as a list
IdRange(lo, n) == [j \in 1..n |-> lo + j - 1]

Min(a, b) == IF a <= b THEN a ELSE b

----------------------------------------------------------------------------
\* Collaborators that live outside the two orchestrators.

\* _iteration(n=..., progress_name=..., verbose=...): yields 0, 1, ..., n-1
Iteration(n) == [j \in 1..n |-> j - 1]

\* a correspondence matrix: which sample indexes its rows and its columns
Matrix(rowsOf, colsOf, h) ==
    [rows |-> rowsOf, cols |-> colsOf, nrow |-> h[rowsOf].n, ncol |-> h[colsOf].n]

NoMatrix == [rows |-> 0, cols |-> 0, nrow |-> 0, ncol |-> 0]

\* numpy's P.T
Transpose(P) == [rows |-> P.cols, cols |-> P.rows, nrow |-> P.ncol, ncol |-> P.nrow]

NoModel ==
    [P |-> NoMatrix, optimal_RnA |-> NoneT, XAHat |-> NoneT, vecfld |-> NoneT,
     iter_added |-> NoneT]

\* Morpho_pairwise(sampleA, sampleB, spatial_key=...).run(): the engine reads the
\* coordinates of both samples under the key it is given and yields the
\* correspondence matrix (rows: sampleA, columns: sampleB), the rigid and the
\* non-rigid coordinates of sampleA, the fitted field and the diagnostics.
MorphoPairwise(h, sampleA, sampleB, key) ==
    LET xa == h[sampleA].obsm[key]
        xb == h[sampleB].obsm[key]
    IN  [P           |-> Matrix(sampleA, sampleB, h),
         optimal_RnA |-> T("optimal_RnA", 0, <<xa, xb>>),
         XAHat       |-> T("XAHat", 0, <<xa, xb>>),
         vecfld      |-> T("vecfld", 0, <<xa, xb>>),
         iter_added  |-> T("iter_added", 0, <<xa, xb>>)]

\* BA_transform(vecfld, quary_points): (non-rigid coordinates, _, rigid coordinates)
BA_transform(vecfld, quary_points) ==
    [nonrigid |-> T("BA_nonrigid", 0, <<vecfld, quary_points>>),
     rigid    |-> T("BA_rigid", 0, <<vecfld, quary_points>>)]

\* downsampling(models, n_sampling, sampling_method, spatial_key): one landmark
\* sample per sample, of at most n_sampling points
Downsampling(s, n_sampling, spatial_key) ==
    [obsm |-> [key \in ObsmKeys |->
                 IF key = spatial_key THEN T("downsampling", 0, <<s.obsm[spatial_key]>>)
                 ELSE NoneT],
     uns  |-> s.uns,
     n    |-> Min(s.n, n_sampling)]

\* one call of a collaborator, as the collaborator sees it
Ev(name, idx, a, b, key, x, y, verbose) ==
    [ev |-> name, i |-> idx, a |-> a, b |-> b, key |-> key, x |-> x, y |-> y,
     verbose |-> verbose]

EvEngine(idx, h, a, b, key, verbose) ==
    Ev("Morpho_pairwise", idx, a, b, key, h[a].obsm[key], h[b].obsm[key], verbose)

EvIteration(n, verbose) == Ev("_iteration", n, 0, 0, "", NoneT, NoneT, verbose)

EvEmptyCache(idx) == Ev("empty_cache", idx, 0, 0, "", NoneT, NoneT, FALSE)

EvTransform(idx, b, vecfld, q) == Ev("BA_transform", idx, 0, b, "", vecfld, q, FALSE)

EvDownsampling(n) == Ev("downsampling", n, 0, 0, "", NoneT, NoneT, FALSE)

----------------------------------------------------------------------------
\* The call's arguments.

Modes == {"SN-S", "SN-N", "other"}

NoArgs ==
    [mode |-> "", spatial_key |-> "", key_added |-> "", iter_key_added |-> "",
     vecfld_key_added |-> "", verbose |-> FALSE, n_sampling |-> 0]

\* the keyword arguments a caller may pass; "None" is Python's None
CallArgs(samplings) ==
    [mode : Modes, spatial_key : {"spatial"}, key_added : {"align_spatial", "spatial"},
     iter_key_added : {"None", "iter_spatial"},
     vecfld_key_added : {"None", "VecFld_morpho"},
     verbose : BOOLEAN, n_sampling : samplings]

----------------------------------------------------------------------------
\* Pieces of the orchestrators' code.

Range(lst) == {lst[j] : j \in 1..Len(lst)}

\* [model.copy() for model in lst]: the heap with the copies allocated
CopyList(h, lst) == h \o [j \in 1..Len(lst) |-> h[lst[j]]]

\* mutant: the list holds the caller's samples themselves
CopiedIdsAliased(h, lst) == lst

\* [model.copy() for model in lst]: the list of the copies
CopiedIds(h, lst) == IdRange(Len(h) + 1, Len(lst))

\* the three coordinate variants every copy starts with
InitCoords(s, a) ==
    LET s1 == SetObsm(s, a.key_added, s.obsm[a.spatial_key])
        s2 == SetObsm(s1, RigidKey(a.key_added), s1.obsm[a.spatial_key])
    IN  SetObsm(s2, NonrigidKey(a.key_added), s2.obsm[a.spatial_key])

\* for m in lst: m.obsm[...] = m.obsm[spatial_key].copy()
InitAll(h, lst, a) ==
    [id \in 1..Len(h) |-> IF id \in Range(lst) THEN InitCoords(h[id], a) ELSE h[id]]

\* mutant: the loop stops one pair early
NPairsShort(lst) == Len(lst) - 2

\* n=len(align_models) - 1
NPairs(lst) == Len(lst) - 1

\* modelA = align_models[i]
ModelA(lst, idx) == lst[idx + 1]

\* mutant: the results are written to the fixed sample
ModelBIsFixed(lst, idx) == lst[idx + 1]

\* modelB = align_models[i + 1]
ModelB(lst, idx) == lst[idx + 2]

\* mutant: the engine is told to read the raw coordinate
EngineSpatialKeyRaw(a) == a.spatial_key

\* mutant: the engine is run on the full-resolution samples
EngineSamplesFull(am, amr) == am

\* modelA_ref = align_models_ref[i]; modelB_ref = align_models_ref[i + 1]:
\* the list morpho_align_ref takes the engine's two samples from
EngineSamples(am, amr) == amr

\* spatial_key=key_added in the construction of Morpho_pairwise
EngineSpatialKey(a) == a.key_added

\* verbose=verbose in the construction of Morpho_pairwise
EngineVerbose(a) == a.verbose

\* verbose=True in the call of _iteration
IterationVerbose(a) == TRUE

\* mutant: the two branches are swapped
ChooseWorkingSwapped(s, a) ==
    IF a.mode = "SN-S" THEN SetObsm(s, a.key_added, s.obsm[NonrigidKey(a.key_added)])
    ELSE IF a.mode = "SN-N" THEN SetObsm(s, a.key_added, s.obsm[RigidKey(a.key_added)])
    ELSE s

\* mutant: any other mode keeps the rigid result
ChooseWorkingElseRigid(s, a) ==
    IF a.mode = "SN-N" THEN SetObsm(s, a.key_added, s.obsm[NonrigidKey(a.key_added)])
    ELSE SetObsm(s, a.key_added, s.obsm[RigidKey(a.key_added)])

\* if mode == "SN-S": ... elif mode == "SN-N": ...
ChooseWorking(s, a) ==
    IF a.mode = "SN-S" THEN SetObsm(s, a.key_added, s.obsm[RigidKey(a.key_added)])
    ELSE IF a.mode = "SN-N" THEN SetObsm(s, a.key_added, s.obsm[NonrigidKey(a.key_added)])
    ELSE s

\* mutant: the list is taken to end one sample early
HasPairButOne(lst, idx) == idx + 3 <= Len(lst)

\* lst[i] and lst[i + 1] both exist (i >= 0); indexing past the end of a list
\* raises IndexError
HasPair(lst, idx) == idx + 2 <= Len(lst)

\* mutant: the non-rigid variant is kept only when the mode asks for it
StoreVariantsByMode(s, a, rigid, nonrigid) ==
    IF a.mode = "SN-N"
    THEN SetObsm(SetObsm(s, RigidKey(a.key_added), rigid), NonrigidKey(a.key_added), nonrigid)
    ELSE SetObsm(s, RigidKey(a.key_added), rigid)

\* modelB.obsm[f"{key_added}_rigid"] = ...; modelB.obsm[f"{key_added}_nonrigid"] = ...
StoreVariants(s, a, rigid, nonrigid) ==
    SetObsm(SetObsm(s, RigidKey(a.key_added), rigid), NonrigidKey(a.key_added), nonrigid)

\* mutant: each slot is guarded by the other slot's key
StoreUnsCrossed(s, a, mm) ==
    LET s1 == IF a.vecfld_key_added # "None"
              THEN SetUns(s, "iter_spatial", mm.iter_added) ELSE s
    IN  IF a.iter_key_added # "None"
        THEN SetUns(s1, "VecFld_morpho", mm.vecfld) ELSE s1

\* if iter_key_added is not None: ...; if vecfld_key_added is not None: ...
StoreUns(s, a, mm) ==
    LET s1 == IF a.iter_key_added # "None"
              THEN SetUns(s, a.iter_key_added, mm.iter_added) ELSE s
    IN  IF a.vecfld_key_added # "None"
        THEN SetUns(s1, a.vecfld_key_added, mm.vecfld) ELSE s1

\* pis.append(P.T) in morpho_align
AlignPi(P) == Transpose(P)

\* pis_ref.append(P) in morpho_align_ref
RefPiRef(P) == P

\* pis.append(P) in morpho_align_ref
RefPi(P) == P

\* quary_points=modelB.obsm[key_added]
QuaryPoints(s, a) == s.obsm[a.key_added]

\* mutant: the field is altered before it is evaluated
TransformFieldModified(mm) == T("modified", 0, <<mm.vecfld>>)

\* vecfld = morpho_model.vecfld
TransformField(mm) == mm.vecfld

\* mutant: the exception is swallowed and the loop goes on
PcAfterRaiseSwallowed == "for"

\* no handler surrounds the calls: an exception leaves the orchestrator
PcAfterRaise == "raised"

\* what the exception leaving the call says about the pair that failed: the
\* collaborator's exception is passed on as it is, and no collaborator is given
\* the pair index, so it names no pair (-1)
ReportedPair(idx) == -1

\* an exception raised by a collaborator while pair idx was processed
Exception(type, idx) == [type |-> type, i |-> idx, pair |-> ReportedPair(idx)]

Returned(am, amr, p, pr) ==
    [align_models |-> am, align_models_ref |-> amr, pis |-> p, pis_ref |-> pr]

----------------------------------------------------------------------------
\* The components besides the orchestrators, at rest.

\* a rational number num/den
Frac(num, den) == <<num, den>>

\* Python's None where a number may stand
None == <<>>

\* Logger.__init__: self.namespace = namespace (default "main");
\* self.report_hook_percent_state = None
NewLogger == [namespace |-> "main", report_hook_percent_state |-> None]

\* names under which loggers are asked of the logging library
LoggerNames == {"main", "lack", "anndata"}

\* no logger of the logging library has a handler, no Logger object was made
NoLoggers ==
    [handlers |-> [name \in LoggerNames |-> <<>>], made |-> 0, silenced |-> {},
     instances |-> <<>>]

NoHook == <<>>

NoCalls == [stack |-> <<>>, flow |-> "running", left |-> <<>>]

NoProgress ==
    [state |-> "none", logger |-> "", items |-> <<>>, iterator |-> 0, i |-> 0,
     prev_progress_percent |-> Frac(0, 1), got |-> <<>>, events |-> <<>>]

NoEngine ==
    [phase |-> "none", NA |-> 0, NB |-> 0, dA |-> 0, dB |-> 0, max_iter |-> 0,
     it |-> 0, P |-> <<>>,
     R |-> <<>>, error |-> "", result |-> <<>>]

OthersIdle ==
    /\ logger = NewLogger
    /\ calls = NoCalls
    /\ progress = NoProgress
    /\ engine = NoEngine
    /\ loggers = NoLoggers
    /\ hook = NoHook

\* no orchestrator is called
OrchIdle ==
    /\ heap = <<>>
    /\ models = <<>>
    /\ models_ref = <<>>
    /\ pc = "idle"
    /\ fn = ""
    /\ args = NoArgs
    /\ align_models = <<>>
    /\ align_models_ref = <<>>
    /\ pis = <<>>
    /\ pis_ref = <<>>
    /\ iter = <<>>
    /\ i = 0
    /\ morpho_model = NoModel
    /\ ret = <<>>
    /\ raised = <<>>
    /\ log = <<>>

----------------------------------------------------------------------------
\* The state before a call: the caller holds a list of samples and, possibly,
\* a list of landmark samples of its own.

Init ==
    \E N \in 0..MaxN, nf \in 1..MaxPts, given \in BOOLEAN, NRef \in 0..MaxN,
       nr \in 1..MaxPts :
        /\ heap = [j \in 1..N |-> InputSample("models", j - 1, nf)]
                  \o (IF given THEN [j \in 1..NRef |-> InputSample("models_ref", j - 1, nr)]
                      ELSE <<>>)
        /\ models = IdRange(1, N)
        /\ models_ref = IF given THEN <<IdRange(N + 1, NRef)>> ELSE <<>>
        /\ pc = "idle"
        /\ fn = ""
        /\ args = NoArgs
        /\ align_models = <<>>
        /\ align_models_ref = <<>>
        /\ pis = <<>>
        /\ pis_ref = <<>>
        /\ iter = <<>>
        /\ i = 0
        /\ morpho_model = NoModel
        /\ ret = <<>>
        /\ raised = <<>>
        /\ log = <<>>
        /\ OthersIdle

----------------------------------------------------------------------------
\* morpho_align

\* lines 64-72: copy the samples, give every copy its three variants, start the loop
MorphoAlignCall ==
    /\ pc = "idle"
    /\ \E a \in CallArgs({0}) :
        LET am == CopiedIds(heap, models)
        IN  /\ args' = a
            /\ align_models' = am
            /\ heap' = InitAll(CopyList(heap, models), am, a)
            /\ iter' = Iteration(NPairs(am))
            /\ log' = Append(log, EvIteration(NPairs(am), IterationVerbose(a)))
    /\ fn' = "morpho_align"
    /\ pis' = <<>>
    /\ pc' = "for"
    /\ UNCHANGED others
    /\ UNCHANGED <<models, models_ref, align_models_ref, pis_ref, i, morpho_model,
                   ret, raised>>

\* lines 72-93: the next pair; the engine runs and succeeds
AlignEngineRun ==
    /\ pc = "for" /\ fn = "morpho_align" /\ iter # <<>>
    /\ LET idx == Head(iter)
           modelA == ModelA(align_models, idx)
           modelB == ModelB(align_models, idx)
       IN  /\ i' = idx
           /\ log' = Append(log, EvEngine(idx, heap, modelB, modelA,
                                          EngineSpatialKey(args), EngineVerbose(args)))
           /\ morpho_model' = MorphoPairwise(heap, modelB, modelA, EngineSpatialKey(args))
    /\ iter' = Tail(iter)
    /\ pc' = "ran"
    /\ UNCHANGED others
    /\ UNCHANGED <<fn, args, heap, models, models_ref, align_models, align_models_ref,
                   pis, pis_ref, ret, raised>>

\* lines 72-93: the next pair; the engine raises
AlignEngineFail ==
    /\ pc = "for" /\ fn = "morpho_align" /\ iter # <<>>
    /\ LET idx == Head(iter)
           modelA == ModelA(align_models, idx)
           modelB == ModelB(align_models, idx)
       IN  /\ i' = idx
           /\ log' = Append(log, EvEngine(idx, heap, modelB, modelA,
                                          EngineSpatialKey(args), EngineVerbose(args)))
           /\ raised' = Append(raised, Exception("engine", idx))
    /\ iter' = Tail(iter)
    /\ pc' = PcAfterRaise
    /\ UNCHANGED others
    /\ UNCHANGED <<fn, args, heap, models, models_ref, align_models, align_models_ref,
                   pis, pis_ref, morpho_model, ret>>

\* lines 94-104: store both variants, choose the working one, attach the slots
AlignAttach ==
    /\ pc = "ran" /\ fn = "morpho_align"
    /\ LET modelB == ModelB(align_models, i)
           s1 == StoreVariants(heap[modelB], args, morpho_model.optimal_RnA,
                               morpho_model.XAHat)
           s2 == ChooseWorking(s1, args)
       IN  heap' = [heap EXCEPT ![modelB] = StoreUns(s2, args, morpho_model)]
    /\ pc' = "attached"
    /\ UNCHANGED others
    /\ UNCHANGED <<fn, args, models, models_ref, align_models, align_models_ref, pis,
                   pis_ref, iter, i, morpho_model, ret, raised, log>>

\* lines 105-106: keep the matrix, release the device cache
AlignRelease ==
    /\ pc = "attached" /\ fn = "morpho_align"
    /\ pis' = Append(pis, AlignPi(morpho_model.P))
    /\ log' = Append(log, EvEmptyCache(i))
    /\ pc' = "for"
    /\ UNCHANGED others
    /\ UNCHANGED <<fn, args, heap, models, models_ref, align_models, align_models_ref,
                   pis_ref, iter, i, morpho_model, ret, raised>>

\* line 108
AlignReturn ==
    /\ pc = "for" /\ fn = "morpho_align" /\ iter = <<>>
    /\ ret' = <<Returned(align_models, <<>>, pis, <<>>)>>
    /\ pc' = "returned"
    /\ UNCHANGED others
    /\ UNCHANGED <<fn, args, heap, models, models_ref, align_models, align_models_ref,
                   pis, pis_ref, iter, i, morpho_model, raised, log>>

----------------------------------------------------------------------------
\* morpho_align_ref

\* lines 169-176: the landmark list the call works on, and the heap holding it
\* (downsampled copies of `models` when the caller passed none)
LandmarkHeap(h, a) ==
    IF models_ref = <<>>
    THEN LET h1 == CopyList(h, models)
             models_sampling == CopiedIds(h, models)
         IN  h1 \o [j \in 1..Len(models_sampling) |->
                      Downsampling(h1[models_sampling[j]], a.n_sampling, a.spatial_key)]
    ELSE h

LandmarkList(h) ==
    IF models_ref = <<>> THEN IdRange(Len(h) + Len(models) + 1, Len(models))
    ELSE models_ref[1]

\* lines 169-193: landmarks, copies of both lists with their variants, start the loop
MorphoAlignRefCall ==
    /\ pc = "idle"
    /\ \E a \in CallArgs(IF models_ref = <<>> THEN 1..MaxPts ELSE {0}) :
        LET h2  == LandmarkHeap(heap, a)
            ref == LandmarkList(heap)
            am  == CopiedIds(h2, models)
            h4  == InitAll(CopyList(h2, models), am, a)
            amr == CopiedIds(h4, ref)
            h6  == InitAll(CopyList(h4, ref), amr, a)
        IN  /\ args' = a
            /\ align_models' = am
            /\ align_models_ref' = amr
            /\ heap' = h6
            /\ iter' = Iteration(NPairs(am))
            /\ log' = (IF models_ref = <<>> THEN Append(log, EvDownsampling(a.n_sampling))
                       ELSE log)
                      \o <<EvIteration(NPairs(am), IterationVerbose(a))>>
    /\ fn' = "morpho_align_ref"
    /\ pis' = <<>>
    /\ pis_ref' = <<>>
    /\ pc' = "for"
    /\ UNCHANGED others
    /\ UNCHANGED <<models, models_ref, i, morpho_model, ret, raised>>

\* lines 193-195: the landmark list is too short for the next pair
RefIndexError ==
    /\ pc = "for" /\ fn = "morpho_align_ref" /\ iter # <<>>
    /\ ~HasPair(align_models_ref, Head(iter))
    /\ i' = Head(iter)
    /\ iter' = Tail(iter)
    /\ raised' = Append(raised, Exception("IndexError", Head(iter)))
    /\ pc' = PcAfterRaise
    /\ UNCHANGED others
    /\ UNCHANGED <<fn, args, heap, models, models_ref, align_models, align_models_ref,
                   pis, pis_ref, morpho_model, ret, log>>

\* lines 193-214: the next pair; the engine runs on the landmarks and succeeds
RefEngineRun ==
    /\ pc = "for" /\ fn = "morpho_align_ref" /\ iter # <<>>
    /\ HasPair(align_models_ref, Head(iter))
    /\ LET idx == Head(iter)
           modelA_ref == ModelA(EngineSamples(align_models, align_models_ref), idx)
           modelB_ref == ModelB(EngineSamples(align_models, align_models_ref), idx)
       IN  /\ i' = idx
           /\ log' = Append(log, EvEngine(idx, heap, modelB_ref, modelA_ref,
                                          EngineSpatialKey(args), EngineVerbose(args)))
           /\ morpho_model' = MorphoPairwise(heap, modelB_ref, modelA_ref,
                                             EngineSpatialKey(args))
    /\ iter' = Tail(iter)
    /\ pc' = "ran"
    /\ UNCHANGED others
    /\ UNCHANGED <<fn, args, heap, models, models_ref, align_models, align_models_ref,
                   pis, pis_ref, ret, raised>>

\* lines 193-214: the next pair; the engine raises
RefEngineFail ==
    /\ pc = "for" /\ fn = "morpho_align_ref" /\ iter # <<>>
    /\ HasPair(align_models_ref, Head(iter))
    /\ LET idx == Head(iter)
           modelA_ref == ModelA(EngineSamples(align_models, align_models_ref), idx)
           modelB_ref == ModelB(EngineSamples(align_models, align_models_ref), idx)
       IN  /\ i' = idx
           /\ log' = Append(log, EvEngine(idx, heap, modelB_ref, modelA_ref,
                                          EngineSpatialKey(args), EngineVerbose(args)))
           /\ raised' = Append(raised, Exception("engine", idx))
    /\ iter' = Tail(iter)
    /\ pc' = PcAfterRaise
    /\ UNCHANGED others
    /\ UNCHANGED <<fn, args, heap, models, models_ref, align_models, align_models_ref,
                   pis, pis_ref, morpho_model, ret>>

\* lines 215-234: the landmark sample gets its variants and its working coordinate,
\* the landmark matrix is kept, both samples get the diagnostics and the field
RefAttach ==
    /\ pc = "ran" /\ fn = "morpho_align_ref"
    /\ LET modelB_ref == ModelB(align_models_ref, i)
           modelB == ModelB(align_models, i)
           s1 == StoreVariants(heap[modelB_ref], args, morpho_model.optimal_RnA,
                               morpho_model.XAHat)
           s2 == ChooseWorking(s1, args)
       IN  heap' = [heap EXCEPT ![modelB_ref] = StoreUns(s2, args, morpho_model),
                                ![modelB] = StoreUns(@, args, morpho_model)]
    /\ pis_ref' = Append(pis_ref, RefPiRef(morpho_model.P))
    /\ pc' = "transform"
    /\ UNCHANGED others
    /\ UNCHANGED <<fn, args, models, models_ref, align_models, align_models_ref, pis,
                   iter, i, morpho_model, ret, raised, log>>

\* lines 253-258: the field of this pair is evaluated at the full-resolution sample
RefTransform ==
    /\ pc = "transform" /\ fn = "morpho_align_ref"
    /\ LET modelB == ModelB(align_models, i)
           vecfld == TransformField(morpho_model)
           q == QuaryPoints(heap[modelB], args)
           out == BA_transform(vecfld, q)
       IN  /\ log' = Append(log, EvTransform(i, modelB, vecfld, q))
           /\ heap' = [heap EXCEPT ![modelB] =
                         StoreVariants(@, args, out.rigid, out.nonrigid)]
    /\ pc' = "choose"
    /\ UNCHANGED others
    /\ UNCHANGED <<fn, args, models, models_ref, align_models, align_models_ref, pis,
                   pis_ref, iter, i, morpho_model, ret, raised>>

\* lines 253-258: the field evaluator raises
RefTransformFail ==
    /\ pc = "transform" /\ fn = "morpho_align_ref"
    /\ LET modelB == ModelB(align_models, i)
           vecfld == TransformField(morpho_model)
           q == QuaryPoints(heap[modelB], args)
       IN  log' = Append(log, EvTransform(i, modelB, vecfld, q))
    /\ raised' = Append(raised, Exception("BA_transform", i))
    /\ pc' = PcAfterRaise
    /\ UNCHANGED others
    /\ UNCHANGED <<fn, args, heap, models, models_ref, align_models, align_models_ref,
                   pis, pis_ref, iter, i, morpho_model, ret>>

\* lines 259-264: the full-resolution sample's working coordinate, and its matrix
RefChoose ==
    /\ pc = "choose" /\ fn = "morpho_align_ref"
    /\ LET modelB == ModelB(align_models, i)
       IN  heap' = [heap EXCEPT ![modelB] = ChooseWorking(@, args)]
    /\ pis' = Append(pis, RefPi(morpho_model.P))
    /\ pc' = "for"
    /\ UNCHANGED others
    /\ UNCHANGED <<fn, args, models, models_ref, align_models, align_models_ref,
                   pis_ref, iter, i, morpho_model, ret, raised, log>>

\* line 266
RefReturn ==
    /\ pc = "for" /\ fn = "morpho_align_ref" /\ iter = <<>>
    /\ ret' = <<Returned(align_models, align_models_ref, pis, pis_ref)>>
    /\ pc' = "returned"
    /\ UNCHANGED others
    /\ UNCHANGED <<fn, args, heap, models, models_ref, align_models, align_models_ref,
                   pis, pis_ref, iter, i, morpho_model, raised, log>>

----------------------------------------------------------------------------

Next ==
    \/ MorphoAlignCall
    \/ AlignEngineRun
    \/ AlignEngineFail
    \/ AlignAttach
    \/ AlignRelease
    \/ AlignReturn
    \/ MorphoAlignRefCall
    \/ RefIndexError
    \/ RefEngineRun
    \/ RefEngineFail
    \/ RefAttach
    \/ RefTransform
    \/ RefTransformFail
    \/ RefChoose
    \/ RefReturn

Spec == Init /\ [][Next]_vars

----------------------------------------------------------------------------
\* Vocabulary of the properties.

\* the calls of one collaborator, in order
Calls(name) == SelectSeq(log, LAMBDA e : e.ev = name)

EngineCalls == Calls("Morpho_pairwise")

TransformCalls == Calls("BA_transform")

ValidMode == args.mode \in {"SN-S", "SN-N"}

Working(id) == heap[id].obsm[args.key_added]

Rigid(id) == heap[id].obsm[RigidKey(args.key_added)]

Nonrigid(id) == heap[id].obsm[NonrigidKey(args.key_added)]

\* what the engine computes for the moving sample from the coordinates it read
RigidOf(e) == T("optimal_RnA", 0, <<e.x, e.y>>)

NonrigidOf(e) == T("XAHat", 0, <<e.x, e.y>>)

FieldOf(e) == T("vecfld", 0, <<e.x, e.y>>)

\* the raw coordinate of the k-th landmark sample (0-based) the call works on
LandmarkRaw(k) ==
    IF models_ref = <<>> THEN T("downsampling", 0, <<RawCoord("models", k)>>)
    ELSE RawCoord("models_ref", k)

----------------------------------------------------------------------------
\* C1 as stated: in morpho_align every engine invocation for pair i has
\* moving = sample[i+1] and fixed = sample[i], and the fixed coordinate it reads
\* is the rigid or non-rigid output for sample[i] of pair i-1 (the raw coordinate
\* for i = 0), never the raw coordinate of sample[i] for i >= 1.
C1_FixedIsPropagated ==
    fn = "morpho_align" =>
        \A j \in 1..Len(EngineCalls) :
            LET e == EngineCalls[j]
            IN  /\ e.i = j - 1
                /\ e.a = align_models[j + 1]
                /\ e.b = align_models[j]
                /\ j = 1 => e.y = RawCoord("models", 0)
                /\ j > 1 => /\ e.y \in {RigidOf(EngineCalls[j - 1]),
                                        NonrigidOf(EngineCalls[j - 1])}
                            /\ e.y # RawCoord("models", j - 1)

\* C1 amended: the same, for the modes 'SN-S' and 'SN-N', where the fixed
\* coordinate read for pair i >= 1 is the output of pair i-1 the mode selects;
\* and whenever the loop is ready to start a pair, every sample processed so far
\* has that output as its working coordinate.
C1_FixedIsPropagatedValidMode ==
    (fn = "morpho_align" /\ ValidMode) =>
        /\ \A j \in 1..Len(EngineCalls) :
            LET e == EngineCalls[j]
            IN  /\ e.i = j - 1
                /\ e.a = align_models[j + 1]
                /\ e.b = align_models[j]
                /\ e.x = RawCoord("models", j)
                /\ j = 1 => e.y = RawCoord("models", 0)
                /\ j > 1 => /\ e.y = (IF args.mode = "SN-S"
                                      THEN RigidOf(EngineCalls[j - 1])
                                      ELSE NonrigidOf(EngineCalls[j - 1]))
                            /\ e.y # RawCoord("models", j - 1)
        /\ pc = "for" =>
            \A j \in 1..Len(EngineCalls) :
                Working(align_models[j + 1]) =
                    (IF args.mode = "SN-S" THEN RigidOf(EngineCalls[j])
                     ELSE NonrigidOf(EngineCalls[j]))

\* pair 1 was started in a valid mode
C1_Witness ==
    /\ fn = "morpho_align" /\ ValidMode
    /\ Len(EngineCalls) >= 2
    /\ args.key_added # args.spatial_key

----------------------------------------------------------------------------
\* the samples an orchestrator has processed so far: sample[k], k >= 1, of a
\* list is processed once its pair k-1 went through the whole loop body
Processed(lst) ==
    {lst[k + 1] : k \in {k \in 1..(Len(lst) - 1) : k <= Len(pis)}}

\* C2: after morpho_align or morpho_align_ref returns with mode 'SN-S' or
\* 'SN-N', the working coordinate of every processed sample[k], k >= 1, of
\* either list equals its stored rigid coordinate (SN-S) or its stored
\* non-rigid coordinate (SN-N).
C2_WorkingIsChosenBranch ==
    (pc = "returned" /\ ValidMode) =>
        \A id \in Processed(align_models) \cup Processed(align_models_ref) :
            Working(id) = (IF args.mode = "SN-S" THEN Rigid(id) ELSE Nonrigid(id))

\* both orchestrators-worth of cases: a returned run that processed a sample whose
\* two variants differ
C2_Witness ==
    /\ pc = "returned" /\ fn = "morpho_align_ref" /\ args.mode = "SN-N"
    /\ Len(pis) >= 2
    /\ \A id \in Processed(align_models) \cup Processed(align_models_ref) :
        Rigid(id) # Nonrigid(id)

\* C3: in both orchestrators sample[0] (and landmark sample[0]) is never modified:
\* in every state of a call its working, rigid and non-rigid coordinates equal its
\* raw input coordinate and it carries neither diagnostics nor a field.
C3_FirstSampleUntouched ==
    pc # "idle" =>
        /\ Len(align_models) >= 1 =>
            LET id == align_models[1]
            IN  /\ Working(id) = RawCoord("models", 0)
                /\ Rigid(id) = RawCoord("models", 0)
                /\ Nonrigid(id) = RawCoord("models", 0)
                /\ heap[id].obsm[args.spatial_key] = RawCoord("models", 0)
                /\ \A key \in UnsKeys : heap[id].uns[key] = NoneT
        /\ Len(align_models_ref) >= 1 =>
            LET id == align_models_ref[1]
            IN  /\ Working(id) = LandmarkRaw(0)
                /\ Rigid(id) = LandmarkRaw(0)
                /\ Nonrigid(id) = LandmarkRaw(0)
                /\ heap[id].obsm[args.spatial_key] = LandmarkRaw(0)
                /\ \A key \in UnsKeys : heap[id].uns[key] = NoneT

\* a run over three samples with landmarks returned, slots attached to the others
C3_Witness ==
    /\ pc = "returned" /\ fn = "morpho_align_ref" /\ ValidMode
    /\ Len(pis) = 2
    /\ args.iter_key_added # "None" /\ args.vecfld_key_added # "None"
    /\ heap[align_models[2]].uns["VecFld_morpho"] # NoneT
    /\ heap[align_models_ref[2]].uns["iter_spatial"] # NoneT

\* C4: for N >= 1 samples morpho_align returns only after pair N-2: the engine was
\* invoked exactly N-1 times, for the pairs 0..N-2 in increasing order; N samples
\* are returned, each with working, rigid and non-rigid coordinates, and exactly
\* N-1 matrices, the i-th relating samples i and i+1 (none for N = 1).
C4_OnePassOverAllPairs ==
    (pc = "returned" /\ fn = "morpho_align" /\ Len(models) >= 1) =>
        LET N == Len(models)
            out == ret[1]
        IN  /\ Len(EngineCalls) = N - 1
            /\ \A j \in 1..Len(EngineCalls) : EngineCalls[j].i = j - 1
            /\ Len(out.align_models) = N
            /\ \A j \in 1..N :
                /\ Working(out.align_models[j]) # NoneT
                /\ Rigid(out.align_models[j]) # NoneT
                /\ Nonrigid(out.align_models[j]) # NoneT
            /\ Len(out.pis) = N - 1
            /\ \A j \in 1..Len(out.pis) :
                {out.pis[j].rows, out.pis[j].cols} =
                    {out.align_models[j], out.align_models[j + 1]}
            /\ N = 1 => (EngineCalls = <<>> /\ out.pis = <<>>)

\* morpho_align returned for the longest list
C4_Witness ==
    /\ pc = "returned" /\ fn = "morpho_align" /\ Len(models) = MaxN
    /\ Len(ret[1].pis) = MaxN - 1

\* morpho_align returned for a single sample
C4_WitnessSingle ==
    pc = "returned" /\ fn = "morpho_align" /\ Len(models) = 1 /\ ret[1].pis = <<>>

\* C5: when the engine fails on pair i the chain is aborted: the call is left by
\* the exception, nothing is returned, the failed invocation is the last call made
\* to any collaborator (no later pair, no retry), and the moving sample of the
\* failed pair keeps its initial coordinates (no default transform).
C5_EngineFailureAborts ==
    \A x \in Range(raised) :
        x.type = "engine" =>
            LET last == log[Len(log)]
                lst == IF fn = "morpho_align" THEN align_models ELSE align_models_ref
                moving == lst[x.i + 2]
            IN  /\ pc = "raised"
                /\ ret = <<>>
                /\ Len(raised) = 1
                /\ last.ev = "Morpho_pairwise" /\ last.i = x.i
                /\ Cardinality({j \in 1..Len(log) :
                                   log[j].ev = "Morpho_pairwise" /\ log[j].i = x.i}) = 1
                /\ Len(EngineCalls) = x.i + 1
                /\ Rigid(moving) = heap[moving].obsm[args.spatial_key]
                /\ Nonrigid(moving) = heap[moving].obsm[args.spatial_key]
                /\ Working(moving) = heap[moving].obsm[args.spatial_key]

\* the engine failed on the second pair, after the first pair had succeeded
C5_Witness ==
    /\ pc = "raised" /\ raised = <<Exception("engine", 1)>>
    /\ Len(pis) = 1
    /\ Len(models) = MaxN

\* the same in morpho_align_ref
C5_WitnessRef ==
    /\ fn = "morpho_align_ref" /\ pc = "raised" /\ raised = <<Exception("engine", 1)>>
    /\ Len(pis_ref) = 1

----------------------------------------------------------------------------
\* the caller's landmark samples
CallerRefs == IF models_ref = <<>> THEN {} ELSE Range(models_ref[1])

\* C6: neither orchestrator mutates the caller's samples: in every state of a
\* run, returned or failed, every sample of `models` and `models_ref` is as it
\* was supplied, the samples worked on are copies, and when key_added differs
\* from spatial_key every returned sample still has its raw coordinate under
\* spatial_key.
C6_InputsNotMutated ==
    /\ \A k \in 1..Len(models) :
        heap[models[k]] = InputSample("models", k - 1, heap[models[k]].n)
    /\ models_ref # <<>> =>
        \A k \in 1..Len(models_ref[1]) :
            heap[models_ref[1][k]] =
                InputSample("models_ref", k - 1, heap[models_ref[1][k]].n)
    /\ (Range(align_models) \cup Range(align_models_ref))
           \cap (Range(models) \cup CallerRefs) = {}
    /\ (pc = "returned" /\ args.key_added # args.spatial_key) =>
        /\ \A k \in 1..Len(ret[1].align_models) :
            heap[ret[1].align_models[k]].obsm[args.spatial_key] = RawCoord("models", k - 1)
        /\ \A k \in 1..Len(ret[1].align_models_ref) :
            heap[ret[1].align_models_ref[k]].obsm[args.spatial_key] = LandmarkRaw(k - 1)

\* a run on the caller's own landmarks returned with results attached
C6_Witness ==
    /\ pc = "returned" /\ fn = "morpho_align_ref" /\ models_ref # <<>>
    /\ args.key_added # args.spatial_key /\ ValidMode
    /\ Len(pis) >= 2
    /\ Working(align_models[2]) # RawCoord("models", 1)

\* C7: morpho_align_ref invokes the engine once per consecutive pair, in order,
\* and only on landmark samples (moving = landmark[i+1], fixed = landmark[i]);
\* the rigid and non-rigid coordinates of full-resolution sample[i+1] come from
\* one BA_transform call, whose field is the one fitted for that pair and whose
\* query points are the sample's working coordinate at that moment; before that
\* call they are the raw coordinate.
C7_FullResolutionByEvaluationOnly ==
    fn = "morpho_align_ref" =>
        /\ \A j \in 1..Len(EngineCalls) :
            LET e == EngineCalls[j]
            IN  /\ e.i = j - 1
                /\ e.a = align_models_ref[j + 1]
                /\ e.b = align_models_ref[j]
                /\ {e.a, e.b} \cap (Range(align_models) \cup Range(models)) = {}
        /\ Len(TransformCalls) <= Len(EngineCalls)
        /\ pc = "returned" =>
            /\ Len(EngineCalls) = Len(TransformCalls)
            /\ Len(EngineCalls) = (IF models = <<>> THEN 0 ELSE Len(models) - 1)
        /\ \A j \in 1..Len(TransformCalls) :
            LET t == TransformCalls[j]
            IN  /\ t.i = j - 1
                /\ t.b = align_models[j + 1]
                /\ t.x = FieldOf(EngineCalls[j])
                /\ t.y = RawCoord("models", j)
        /\ pc = "choose" =>
            TransformCalls[Len(TransformCalls)].y = Working(ModelB(align_models, i))
        /\ \A k \in 1..(Len(align_models) - 1) :
            LET id == align_models[k + 1]
            IN  IF k <= Len(pis) \/ (pc = "choose" /\ k = Len(TransformCalls))
                THEN /\ Rigid(id) = BA_transform(TransformCalls[k].x,
                                                 TransformCalls[k].y).rigid
                     /\ Nonrigid(id) = BA_transform(TransformCalls[k].x,
                                                    TransformCalls[k].y).nonrigid
                ELSE /\ Rigid(id) = RawCoord("models", k)
                     /\ Nonrigid(id) = RawCoord("models", k)

\* the second full-resolution sample was just transformed
C7_Witness ==
    /\ fn = "morpho_align_ref" /\ pc = "choose"
    /\ Len(TransformCalls) = 2 /\ Len(EngineCalls) = 2
    /\ Rigid(align_models[3]) # RawCoord("models", 2)

\* C8 as stated: morpho_align_ref returns matrices for both chains: the i-th
\* matrix of the full-resolution list relates full-resolution samples i+1 and i
\* and has their point counts as dimensions, the i-th matrix of the landmark
\* list relates landmark samples i+1 and i.
C8_MatricesOfBothChains ==
    (pc = "returned" /\ fn = "morpho_align_ref") =>
        LET out == ret[1]
        IN  /\ \A j \in 1..Len(out.pis_ref) :
                {out.pis_ref[j].rows, out.pis_ref[j].cols} =
                    {out.align_models_ref[j], out.align_models_ref[j + 1]}
            /\ \A j \in 1..Len(out.pis) :
                /\ {out.pis[j].rows, out.pis[j].cols} =
                       {out.align_models[j], out.align_models[j + 1]}
                /\ {out.pis[j].nrow, out.pis[j].ncol} =
                       {heap[out.align_models[j]].n, heap[out.align_models[j + 1]].n}

\* C9 as stated: both orchestrators orient the matrices they return in the same
\* way: for the engine output P of a pair, the matrices morpho_align_ref puts in
\* its lists have the same sample on the row axis as the matrix morpho_align puts
\* in its list.
C9_SameOrientation ==
    pc = "returned" =>
        \A j \in 1..Len(EngineCalls) :
            LET P == Matrix(EngineCalls[j].a, EngineCalls[j].b, heap)
            IN  /\ fn = "morpho_align" =>
                    /\ ret[1].pis[j].rows = RefPi(P).rows
                    /\ ret[1].pis[j].rows = RefPiRef(P).rows
                /\ fn = "morpho_align_ref" =>
                    /\ ret[1].pis[j].rows = AlignPi(P).rows
                    /\ ret[1].pis_ref[j].rows = AlignPi(P).rows

\* C10 as stated: in both orchestrators empty_cache is called between any two
\* consecutive engine invocations.
C10_CacheReleasedBetweenPairs ==
    \A j, k \in 1..Len(log) :
        (j < k /\ log[j].ev = "Morpho_pairwise" /\ log[k].ev = "Morpho_pairwise") =>
            \E r \in (j + 1)..(k - 1) : log[r].ev = "empty_cache"

----------------------------------------------------------------------------
\* the list whose consecutive samples the engine is run on
EngineList == IF fn = "morpho_align" THEN align_models ELSE align_models_ref

\* the raw coordinate of the k-th sample (0-based) of that list
EngineRaw(k) == IF fn = "morpho_align" THEN RawCoord("models", k) ELSE LandmarkRaw(k)

\* pair k-1 has stored its results on sample[k] of the engine's list
Attached(k) ==
    IF fn = "morpho_align" THEN k <= Len(pis) \/ (pc = "attached" /\ k = i + 1)
    ELSE k <= Len(pis_ref)

\* C11: the mode only selects which result is kept.  No engine invocation
\* receives the mode; under every mode both the rigid and the non-rigid result of
\* a pair are stored on sample[i+1]; and everything pair 0 computes (coordinates
\* read, rigid and non-rigid result, field, matrix) is given by the input alone,
\* hence the same in two runs that differ only in the mode.
C11_ModeOnlySelects ==
    pc # "idle" =>
        /\ \A j \in 1..Len(EngineCalls) :
            /\ "mode" \notin DOMAIN EngineCalls[j]
            /\ EngineCalls[j].key = args.key_added
        /\ \A k \in 1..(Len(EngineList) - 1) :
            Attached(k) =>
                /\ Rigid(EngineList[k + 1]) = RigidOf(EngineCalls[k])
                /\ Nonrigid(EngineList[k + 1]) = NonrigidOf(EngineCalls[k])
        /\ Len(EngineCalls) >= 1 =>
            /\ EngineCalls[1].x = EngineRaw(1)
            /\ EngineCalls[1].y = EngineRaw(0)
            /\ EngineCalls[1].a = EngineList[2]
            /\ EngineCalls[1].b = EngineList[1]
        /\ (pc = "ran" /\ i = 0) =>
            /\ morpho_model.optimal_RnA = T("optimal_RnA", 0, <<EngineRaw(1), EngineRaw(0)>>)
            /\ morpho_model.XAHat = T("XAHat", 0, <<EngineRaw(1), EngineRaw(0)>>)
            /\ morpho_model.vecfld = T("vecfld", 0, <<EngineRaw(1), EngineRaw(0)>>)
            /\ morpho_model.P = Matrix(EngineList[2], EngineList[1], heap)
        /\ Attached(1) =>
            /\ Rigid(EngineList[2]) = T("optimal_RnA", 0, <<EngineRaw(1), EngineRaw(0)>>)
            /\ Nonrigid(EngineList[2]) = T("XAHat", 0, <<EngineRaw(1), EngineRaw(0)>>)

\* pair 0 has stored both results in the mode that keeps the rigid one
C11_Witness ==
    /\ fn = "morpho_align" /\ args.mode = "SN-S" /\ pc = "attached" /\ i = 0
    /\ Nonrigid(align_models[2]) = T("XAHat", 0, <<RawCoord("models", 1), RawCoord("models", 0)>>)
    /\ Working(align_models[2]) = Rigid(align_models[2])

----------------------------------------------------------------------------
\* C12 as stated: when the engine fails on pair i, the error the orchestrator
\* surfaces identifies that pair.
C12_ErrorNamesPair ==
    \A x \in Range(raised) : x.type = "engine" => x.pair = x.i

----------------------------------------------------------------------------
\* the diagnostics the engine yields for the coordinates it read
IterOf(e) == T("iter_added", 0, <<e.x, e.y>>)

\* C13: in morpho_align_ref the field fitted for pair i is reused verbatim: the
\* field handed to BA_transform, the field attached to landmark sample[i+1] and
\* the field attached to full-resolution sample[i+1] are the field the engine
\* returned for pair i, in every later state of the run as well.
C13_FieldReusedVerbatim ==
    fn = "morpho_align_ref" =>
        /\ \A k \in 1..Len(TransformCalls) :
            TransformCalls[k].x = FieldOf(EngineCalls[k])
        /\ pc \in {"ran", "transform", "choose"} =>
            morpho_model.vecfld = FieldOf(EngineCalls[i + 1])
        /\ args.vecfld_key_added # "None" =>
            \A k \in 1..Len(pis_ref) :
                /\ heap[align_models_ref[k + 1]].uns[args.vecfld_key_added]
                       = FieldOf(EngineCalls[k])
                /\ heap[align_models[k + 1]].uns[args.vecfld_key_added]
                       = FieldOf(EngineCalls[k])

\* two pairs were processed and the first pair's field is still attached
C13_Witness ==
    /\ fn = "morpho_align_ref" /\ pc = "returned" /\ Len(pis) = 2
    /\ args.vecfld_key_added # "None"
    /\ heap[align_models[2]].uns["VecFld_morpho"] = FieldOf(EngineCalls[1])
    /\ heap[align_models[3]].uns["VecFld_morpho"] = FieldOf(EngineCalls[2])
    /\ FieldOf(EngineCalls[1]) # FieldOf(EngineCalls[2])

\* what sample number k (1-based) of a list must carry in a slot
ExpectedSlot(k, key, value) ==
    IF key # "None" /\ k >= 2 /\ Attached(k - 1) THEN value ELSE NoneT

\* C14: the orchestrators attach the diagnostics under iter_key_added and the
\* field under vecfld_key_added exactly when the key is not None: with the key
\* None no sample carries the slot, otherwise exactly the samples whose pair was
\* processed carry the slot of their own pair (both the landmark and the
\* full-resolution sample in morpho_align_ref), and after the return these are
\* the samples 1..N-1.
C14_SlotsIffKeyGiven ==
    pc # "idle" =>
        /\ \A lst \in {align_models, align_models_ref} :
            \A k \in 1..Len(lst) :
                /\ heap[lst[k]].uns["iter_spatial"] =
                       ExpectedSlot(k, args.iter_key_added,
                                    IF k - 1 \in 1..Len(EngineCalls)
                                    THEN IterOf(EngineCalls[k - 1]) ELSE NoneT)
                /\ heap[lst[k]].uns["VecFld_morpho"] =
                       ExpectedSlot(k, args.vecfld_key_added,
                                    IF k - 1 \in 1..Len(EngineCalls)
                                    THEN FieldOf(EngineCalls[k - 1]) ELSE NoneT)
        /\ pc = "returned" =>
            \A k \in 2..Len(models) : Attached(k - 1)

\* diagnostics wanted, field not: a returned run over three samples
C14_Witness ==
    /\ pc = "returned" /\ Len(models) = 3
    /\ args.iter_key_added = "iter_spatial" /\ args.vecfld_key_added = "None"
    /\ heap[align_models[3]].uns["iter_spatial"] = IterOf(EngineCalls[2])
    /\ heap[align_models[3]].uns["VecFld_morpho"] = NoneT

\* C15 as stated: the caller's verbose flag decides every request for progress
\* reporting: the flag handed to the per-pair progress collaborator and the flag
\* handed to the engine are the caller's.
C15_VerboseControlsProgress ==
    \A j \in 1..Len(log) :
        log[j].ev \in {"_iteration", "Morpho_pairwise"} => log[j].verbose = args.verbose

----------------------------------------------------------------------------
\* Logger.namespaced and Logger.namespaced_context (lack.py).
\*
\* `calls.stack` holds one frame for every decorated function and every context
\* block being executed, innermost last.  `calls.flow` is "unwinding" while an
\* exception travels up the stack.  `calls.left` remembers the frame that was
\* left last and how, until something is entered again.

MaxDepth == 3

Namespaces == {"main", "a", "b"}

\* inner(), line 118, and namespaced_context, line 133: previous = self.namespace
SavedPrevious(lg) == lg.namespace

\* inner(), line 120, and namespaced_context, line 134: self.namespace = namespace
SetNamespace(lg, namespace) == [lg EXCEPT !.namespace = namespace]

NamespacedExitNoFinally(lg, previous, how) ==
    IF how = "raise" THEN lg ELSE [lg EXCEPT !.namespace = previous]

\* inner(), lines 119-122: the finally clause runs however func() ends
NamespacedExit(lg, previous, how) == [lg EXCEPT !.namespace = previous]

\* namespaced_context, lines 135-136: the statement after `yield` runs only when
\* the body of the block completed; an exception raised by the body is thrown
\* into the generator at the `yield` and leaves it at once
ContextExit(lg, previous, how) ==
    IF how = "raise" THEN lg ELSE [lg EXCEPT !.namespace = previous]

Frame(kind, namespace, lg) ==
    [kind |-> kind, namespace |-> namespace, previous |-> SavedPrevious(lg),
     before |-> lg.namespace, blocks |-> FALSE]

Left(frame, how) == [kind |-> frame.kind, how |-> how, before |-> frame.before]

Top == calls.stack[Len(calls.stack)]

Pop(stack) == SubSeq(stack, 1, Len(stack) - 1)

\* every frame of the stack now has a context block inside it
WithBlock(stack) == [k \in 1..Len(stack) |-> [stack[k] EXCEPT !.blocks = TRUE]]

InitNamespace ==
    /\ OrchIdle
    /\ OthersIdle

\* a decorated function is called: inner() up to the call of func
EnterNamespaced ==
    /\ calls.flow = "running"
    /\ Len(calls.stack) < MaxDepth
    /\ \E namespace \in Namespaces :
        /\ calls' = [calls EXCEPT
                        !.stack = Append(@, Frame("namespaced", namespace, logger)),
                        !.left = <<>>]
        /\ logger' = SetNamespace(logger, namespace)
    /\ UNCHANGED <<orchVars, loggers, hook, progress, engine>>

\* func returns: the finally clause, then inner() returns
ReturnNamespaced ==
    /\ calls.flow = "running"
    /\ calls.stack # <<>> /\ Top.kind = "namespaced"
    /\ logger' = NamespacedExit(logger, Top.previous, "return")
    /\ calls' = [calls EXCEPT !.stack = Pop(@), !.left = <<Left(Top, "return")>>]
    /\ UNCHANGED <<orchVars, loggers, hook, progress, engine>>

\* a `with logger.namespaced_context(namespace):` block is entered
EnterContext ==
    /\ calls.flow = "running"
    /\ Len(calls.stack) < MaxDepth
    /\ \E namespace \in Namespaces :
        /\ calls' = [calls EXCEPT
                        !.stack = Append(WithBlock(@),
                                         Frame("namespaced_context", namespace, logger)),
                        !.left = <<>>]
        /\ logger' = SetNamespace(logger, namespace)
    /\ UNCHANGED <<orchVars, loggers, hook, progress, engine>>

\* the body of the block completes
ExitContext ==
    /\ calls.flow = "running"
    /\ calls.stack # <<>> /\ Top.kind = "namespaced_context"
    /\ logger' = ContextExit(logger, Top.previous, "return")
    /\ calls' = [calls EXCEPT !.stack = Pop(@), !.left = <<Left(Top, "return")>>]
    /\ UNCHANGED <<orchVars, loggers, hook, progress, engine>>

\* the innermost body raises an exception
Raise ==
    /\ calls.flow = "running"
    /\ calls.stack # <<>>
    /\ calls' = [calls EXCEPT !.flow = "unwinding", !.left = <<>>]
    /\ UNCHANGED <<orchVars, loggers, hook, logger, progress, engine>>

\* the exception leaves a decorated function
UnwindNamespaced ==
    /\ calls.flow = "unwinding"
    /\ calls.stack # <<>> /\ Top.kind = "namespaced"
    /\ logger' = NamespacedExit(logger, Top.previous, "raise")
    /\ calls' = [calls EXCEPT !.stack = Pop(@), !.left = <<Left(Top, "raise")>>]
    /\ UNCHANGED <<orchVars, loggers, hook, progress, engine>>

\* the exception leaves a context block
UnwindContext ==
    /\ calls.flow = "unwinding"
    /\ calls.stack # <<>> /\ Top.kind = "namespaced_context"
    /\ logger' = ContextExit(logger, Top.previous, "raise")
    /\ calls' = [calls EXCEPT !.stack = Pop(@), !.left = <<Left(Top, "raise")>>]
    /\ UNCHANGED <<orchVars, loggers, hook, progress, engine>>

\* the code around the frame that was just left handles the exception
Catch ==
    /\ calls.flow = "unwinding"
    /\ calls.left # <<>>
    /\ calls' = [calls EXCEPT !.flow = "running"]
    /\ UNCHANGED <<orchVars, loggers, hook, logger, progress, engine>>

NextNamespace ==
    \/ EnterNamespaced
    \/ ReturnNamespaced
    \/ EnterContext
    \/ ExitContext
    \/ Raise
    \/ UnwindNamespaced
    \/ UnwindContext
    \/ Catch

SpecNamespace == InitNamespace /\ [][NextNamespace]_vars

\* C19: while a decorated function runs (its body changing the namespace only
\* through further decorated calls), the namespace is the decorator's value;
\* and right after a decorated call is left, by return or by an exception,
\* the namespace is the one in force immediately before the call.  Nested
\* calls included.
C19_NamespacedForTheDuration ==
    /\ (calls.flow = "running" /\ calls.stack # <<>> /\ Top.kind = "namespaced"
            /\ ~Top.blocks)
           => logger.namespace = Top.namespace
    /\ (calls.left # <<>> /\ calls.left[1].kind = "namespaced")
           => logger.namespace = calls.left[1].before

\* an exception has just left the inner of two nested decorated calls: the
\* namespace is the outer call's again
C19_Witness ==
    /\ calls.flow = "unwinding"
    /\ Len(calls.stack) = 1 /\ Top.kind = "namespaced" /\ Top.namespace = "a"
    /\ calls.left # <<>> /\ calls.left[1].kind = "namespaced"
    /\ calls.left[1].how = "raise" /\ calls.left[1].before = "a"
    /\ logger.namespace = "a"

\* C20 as stated: right after a namespaced_context block is left, by completion
\* of its body or by an exception, the namespace is the one in force before
\* the block was entered.
C20_ContextRestores ==
    (calls.left # <<>> /\ calls.left[1].kind = "namespaced_context")
        => logger.namespace = calls.left[1].before

----------------------------------------------------------------------------
\* LoggerManager.progress_logger and LoggerManager.main_tqdm (lack.py).
\*
\* `progress` is one generator object made by progress_logger together with
\* what its consumer has received (`got`) and the calls the generator has made
\* on its logger (`events`).  The body of a generator runs only while the
\* consumer is inside next(); one action is one such stretch, from a
\* resumption to the next `yield` or to the end of the body.
\* Percentages are exact fractions.  The code computes them in floating point;
\* the two agree except where the rise since the last report is exactly 1,
\* which no length used here produces.

MaxLen == 3

\* a length whose steps are smaller than one percent
LongLen == 150

Lengths == (0..MaxLen) \cup {LongLen}

\* a - b > 1
ExceedsByOne(a, b) == a[1] * b[2] - b[1] * a[2] > a[2] * b[2]

\* a >= 100
AtLeast100(a) == a[1] >= 100 * a[2]

\* line 284: new_progress_percent = i / len(generator) * 100
NewProgressPercent(n, len) == Frac(n * 100, len)

\* line 286: the condition under which the loop reports
ShouldReport(new, prev) == ExceedsByOne(new, prev) \/ AtLeast100(new)

NewPrevStale(prev, new) == prev

\* line 290: prev_progress_percent = new_progress_percent
NewPrev(prev, new) == new

\* progress_logger, lines 280-281, and main_tqdm, lines 329-330, called
\* without a logger
DefaultLogger(via) ==
    IF via = "main_tqdm" THEN "main_logger" ELSE "temp_timer_logger"

\* a call made on the logger, with the number of elements yielded before it
ProgressEv(ev, by, count, total, percent) ==
    [ev |-> ev, by |-> by, count |-> count, total |-> total, percent |-> percent,
     after |-> Len(progress.got)]

\* line 283: logger.log_time(), on the first resumption only
EvStart ==
    IF progress.state = "created"
    THEN <<ProgressEv("log_time", "progress_logger", 0, 0, Frac(0, 1))>>
    ELSE <<>>

\* Logger.report_progress, lines 197-199: percent = count / total * 100
EvReport(count, total) ==
    ProgressEv("report_progress", "progress_logger", count, total,
               Frac(count * 100, total))

\* Logger.finish_progress, lines 212-213: log_time, then report_progress(percent=100)
EvFinish ==
    <<ProgressEv("finish_progress", "progress_logger", 0, 0, Frac(0, 1)),
      ProgressEv("log_time", "finish_progress", 0, 0, Frac(0, 1)),
      ProgressEv("report_progress", "finish_progress", 0, 0, Frac(100, 1))>>

\* the generator object returned by progress_logger(generator) or
\* main_tqdm(generator): nothing of the body has run yet
NewProgress(via, len) ==
    [state |-> "created", logger |-> DefaultLogger(via),
     items |-> [k \in 1..len |-> k], iterator |-> 0, i |-> 0,
     prev_progress_percent |-> Frac(0, 1), got |-> <<>>, events |-> <<>>]

InitProgress ==
    /\ OrchIdle
    /\ logger = NewLogger
    /\ calls = NoCalls
    /\ engine = NoEngine
    /\ loggers = NoLoggers
    /\ hook = NoHook
    /\ \E via \in {"progress_logger", "main_tqdm"}, len \in Lengths :
        progress = NewProgress(via, len)

Resumable == progress.state \in {"created", "suspended"}

\* next() while i < len(generator): one turn of the loop, up to the yield
ProgressYield ==
    /\ Resumable
    /\ progress.i < Len(progress.items)
    /\ LET n == progress.i + 1
           new == NewProgressPercent(n, Len(progress.items))
           prev == progress.prev_progress_percent
           report == ShouldReport(new, prev)
           item == progress.items[progress.iterator + 1]
       IN progress' = [progress EXCEPT
               !.state = "suspended",
               !.i = n,
               !.events = @ \o EvStart \o
                          (IF report THEN <<EvReport(n, Len(progress.items))>>
                                     ELSE <<>>),
               !.prev_progress_percent = IF report THEN NewPrev(prev, new) ELSE prev,
               !.iterator = @ + 1,
               !.got = Append(@, item)]
    /\ UNCHANGED <<orchVars, loggers, hook, logger, calls, engine>>

\* next() when the loop is over: finish_progress, then the generator ends
ProgressFinish ==
    /\ Resumable
    /\ ~(progress.i < Len(progress.items))
    /\ progress' = [progress EXCEPT
            !.state = "finished",
            !.events = @ \o EvStart \o EvFinish]
    /\ UNCHANGED <<orchVars, loggers, hook, logger, calls, engine>>

\* the consumer stops asking: the generator is closed or dropped where it stands
ProgressClose ==
    /\ Resumable
    /\ progress' = [progress EXCEPT !.state = "closed"]
    /\ UNCHANGED <<orchVars, loggers, hook, logger, calls, engine>>

NextProgress ==
    \/ ProgressYield
    \/ ProgressFinish
    \/ ProgressClose

SpecProgress == InitProgress /\ [][NextProgress]_vars

\* the positions in `events` of the calls `ev`
EventsOf(ev) == {j \in 1..Len(progress.events) : progress.events[j].ev = ev}

\* the percentage of the report before position j, 0 if there is none
PercentBefore(j) ==
    LET earlier == {k \in EventsOf("report_progress") : k < j}
    IN IF earlier = {} THEN Frac(0, 1)
       ELSE progress.events[CHOOSE k \in earlier : \A h \in earlier : h <= k].percent

\* C18: the consumer receives the elements once each and in order; fully
\* consumed means all of them; the last element (100%) is reported before it is
\* yielded whenever there is one; every report is of a percentage that rose by
\* more than 1 since the last report or reached 100; finish_progress is called
\* exactly once by a generator that ran to its end, after the last element was
\* yielded, also for no elements; and never by one its consumer abandoned.
C18_ProgressLogger ==
    LET len == Len(progress.items)
        finishes == EventsOf("finish_progress")
    IN /\ progress.got = SubSeq(progress.items, 1, Len(progress.got))
       /\ progress.state = "finished" => progress.got = progress.items
       /\ (len >= 1 /\ Len(progress.got) = len) =>
              \E j \in EventsOf("report_progress") :
                  /\ progress.events[j].count = len
                  /\ progress.events[j].percent = Frac(100 * len, len)
                  /\ progress.events[j].after = len - 1
       /\ \A j \in EventsOf("report_progress") :
              \/ AtLeast100(progress.events[j].percent)
              \/ ExceedsByOne(progress.events[j].percent, PercentBefore(j))
       /\ progress.state = "finished" =>
              /\ Cardinality(finishes) = 1
              /\ \A j \in finishes : progress.events[j].after = len
       /\ progress.state # "finished" => finishes = {}

\* a long iterable consumed to its end through main_tqdm: fewer reports than
\* elements, the last one at 100%, one finish_progress
C18_Witness ==
    /\ progress.state = "finished"
    /\ progress.logger = "main_logger"
    /\ Len(progress.items) > MaxLen
    /\ Cardinality({j \in EventsOf("report_progress") :
                       progress.events[j].by = "progress_logger"})
           < Len(progress.items)
    /\ Cardinality(EventsOf("finish_progress")) = 1

\* the consumer abandoned a generator that had yielded every element
C18_WitnessEarly ==
    /\ progress.state = "closed"
    /\ progress.got = progress.items /\ progress.items # <<>>
    /\ EventsOf("finish_progress") = {}

----------------------------------------------------------------------------
\* The pairwise registration engine (Morpho_pairwise(...).run()), as its
\* contract describes it: an EM loop over an E-step that turns affinities into
\* the correspondence matrix P, a rigid M-step that solves a weighted orthogonal
\* Procrustes problem through a singular-value decomposition, and an update of
\* the shared variance.  The numbers the loop works on are drawn afresh at every
\* step; what is modelled is the arithmetic that turns them into P and into
\* the rotation.  Coordinates are two-dimensional.

MaxIter == 2

\* affinity of a point of A to a point of B, and the mass of the outlier component
Affinities == {0, 1}

OutlierMass == {0, 1}

FeatureDims == {1, 2}

FracAdd(x, y) == Frac(x[1] * y[2] + y[1] * x[2], x[2] * y[2])

RECURSIVE MassUpTo(_, _)
\* the sum of the first k entries of a row of naturals
MassUpTo(row, k) == IF k = 0 THEN 0 ELSE MassUpTo(row, k - 1) + row[k]

RowMass(w, a) == MassUpTo(w[a], Len(w[a]))

ColMass(w, b) == MassUpTo([a \in 1..Len(w) |-> w[a][b]], Len(w))

DenominatorByColumn(w, c, a, b) == ColMass(w, b) + c

\* the mixture's total responsibility for point a of A: every component of B
\* and the outlier component
Denominator(w, c, a, b) == RowMass(w, a) + c

\* E-step: the Gaussian-mixture posterior of each point of A over the points of B
Posterior(w, c) ==
    [a \in 1..Len(w) |->
        [b \in 1..Len(w[a]) |-> Frac(w[a][b], Denominator(w, c, a, b))]]

\* a posterior with a zero denominator is not a finite number
NonFinite(P) == \E a \in 1..Len(P) : \E b \in 1..Len(P[a]) : P[a][b][2] = 0

Mat(a, b, c, d) == <<<<a, b>>, <<c, d>>>>

Identity == Mat(1, 0, 0, 1)

MatMul(X, Y) ==
    [r \in 1..2 |-> [c \in 1..2 |-> X[r][1] * Y[1][c] + X[r][2] * Y[2][c]]]

MatT(X) == [r \in 1..2 |-> [c \in 1..2 |-> X[c][r]]]

Det(X) == X[1][1] * X[2][2] - X[1][2] * X[2][1]

\* the orthogonal matrices with integer entries: the factors U, V of a
\* singular-value decomposition
Orthogonal ==
    {X \in {Mat(a, b, c, d) : a \in -1..1, b \in -1..1, c \in -1..1, d \in -1..1} :
        MatMul(X, MatT(X)) = Identity}

RotationUncorrected(U, V) == MatMul(U, MatT(V))

\* rigid M-step: the rotation of the Procrustes solution constrained to
\* rotations, R = U diag(1, det(U V^T)) V^T
Rotation(U, V) ==
    MatMul(MatMul(U, Mat(1, 0, 0, Det(MatMul(U, MatT(V))))), MatT(V))

\* register(sampleMoving, sampleFixed, ..., maxIterations, ...) is called
NewEngine(NA, NB, dA, dB, max_iter) ==
    [phase |-> "start", NA |-> NA, NB |-> NB, dA |-> dA, dB |-> dB,
     max_iter |-> max_iter, it |-> 0, P |-> <<>>, R |-> Identity, error |-> "",
     result |-> <<>>]

\* a failure: the intermediate state is discarded, nothing is returned
Failed(error) ==
    [engine EXCEPT !.phase = "failed", !.error = error, !.P = <<>>, !.R = <<>>]

InitEngine ==
    /\ OrchIdle
    /\ logger = NewLogger
    /\ calls = NoCalls
    /\ progress = NoProgress
    /\ loggers = NoLoggers
    /\ hook = NoHook
    /\ \E NA \in 0..MaxPts, NB \in 0..MaxPts, dA \in FeatureDims, dB \in FeatureDims,
          max_iter \in 1..MaxIter :
        engine = NewEngine(NA, NB, dA, dB, max_iter)

\* the inputs are rejected
EngineReject ==
    /\ engine.phase = "start"
    /\ engine.dA # engine.dB \/ engine.NA = 0 \/ engine.NB = 0
    /\ engine' = Failed(IF engine.dA # engine.dB THEN "DimensionMismatch"
                                                 ELSE "EmptyInput")
    /\ UNCHANGED <<orchVars, loggers, hook, logger, calls, progress>>

\* the inputs are valid: the first iteration begins
EngineBegin ==
    /\ engine.phase = "start"
    /\ engine.dA = engine.dB /\ engine.NA > 0 /\ engine.NB > 0
    /\ engine' = [engine EXCEPT !.phase = "E", !.it = 1]
    /\ UNCHANGED <<orchVars, loggers, hook, logger, calls, progress>>

EStep ==
    /\ engine.phase = "E"
    /\ \E w \in [1..engine.NA -> [1..engine.NB -> Affinities]], c \in OutlierMass :
        LET P == Posterior(w, c)
        IN engine' = IF NonFinite(P) THEN Failed("NumericalDegeneracy")
                     ELSE [engine EXCEPT !.phase = "M", !.P = P]
    /\ UNCHANGED <<orchVars, loggers, hook, logger, calls, progress>>

MStepRigid ==
    /\ engine.phase = "M"
    /\ \E U \in Orthogonal, V \in Orthogonal, rank_deficient \in BOOLEAN :
        engine' = IF rank_deficient THEN Failed("NumericalDegeneracy")
                  ELSE [engine EXCEPT !.phase = "update", !.R = Rotation(U, V)]
    /\ UNCHANGED <<orchVars, loggers, hook, logger, calls, progress>>

\* non-rigid M-step and update of the shared variance; then the loop goes on,
\* or ends by convergence or because the iteration budget is used up
VarianceUpdate ==
    /\ engine.phase = "update"
    /\ \E variance_zero \in BOOLEAN, converged \in BOOLEAN :
        engine' = IF variance_zero THEN Failed("NumericalDegeneracy")
                  ELSE IF converged \/ engine.it = engine.max_iter
                       THEN [engine EXCEPT !.phase = "done"]
                       ELSE [engine EXCEPT !.phase = "E", !.it = @ + 1, !.P = <<>>]
    /\ UNCHANGED <<orchVars, loggers, hook, logger, calls, progress>>

\* the alignment result: the final P and the final rigid transform
EngineReturn ==
    /\ engine.phase = "done"
    /\ engine' = [engine EXCEPT !.phase = "returned",
                                !.result = <<[P |-> engine.P, R |-> engine.R]>>]
    /\ UNCHANGED <<orchVars, loggers, hook, logger, calls, progress>>

NextEngine ==
    \/ EngineReject
    \/ EngineBegin
    \/ EStep
    \/ MStepRigid
    \/ VarianceUpdate
    \/ EngineReturn

SpecEngine == InitEngine /\ [][NextEngine]_vars

RECURSIVE FracSumUpTo(_, _)
\* the sum of the first k entries of a row of fractions
FracSumUpTo(row, k) ==
    IF k = 0 THEN Frac(0, 1) ELSE FracAdd(FracSumUpTo(row, k - 1), row[k])

RowSum(row) == FracSumUpTo(row, Len(row))

\* C16: every entry of a returned correspondence matrix is a non-negative
\* number and every row sums to a value in [0, 1].
C16_RowsAreSubStochastic ==
    engine.result # <<>> =>
        LET P == engine.result[1].P
        IN \A a \in 1..Len(P) :
            /\ \A b \in 1..Len(P[a]) : P[a][b][2] > 0 /\ P[a][b][1] >= 0
            /\ RowSum(P[a])[2] > 0
            /\ RowSum(P[a])[1] >= 0
            /\ RowSum(P[a])[1] <= RowSum(P[a])[2]

\* a returned two-by-two matrix: one row leaves a third of its mass to the
\* outlier component, the other a half
C16_Witness ==
    /\ engine.phase = "returned"
    /\ engine.NA = 2 /\ engine.NB = 2
    /\ engine.result[1].P[1] = <<Frac(1, 3), Frac(1, 3)>>
    /\ engine.result[1].P[2] = <<Frac(1, 2), Frac(0, 2)>>

\* C17: the rotational part of a returned rigid transform is orthogonal with
\* determinant +1.
C17_ProperRotation ==
    engine.result # <<>> =>
        LET R == engine.result[1].R
        IN /\ Det(R) = 1
           /\ MatMul(R, MatT(R)) = Identity

\* a returned rotation by a quarter turn, which the uncorrected solution of
\* some decomposition would have made a reflection
C17_Witness ==
    /\ engine.phase = "returned"
    /\ engine.result[1].R = Mat(0, -1, 1, 0)
    /\ \E U \in Orthogonal, V \in Orthogonal :
        /\ Rotation(U, V) = engine.result[1].R
        /\ Det(RotationUncorrected(U, V)) = -1

----------------------------------------------------------------------------
\* Claims about calls the orchestrators do not guard against (specification Spec).

\* the output the field evaluator gave for the call e
BARigidOf(e) == T("BA_rigid", 0, <<e.x, e.y>>)

BANonrigidOf(e) == T("BA_nonrigid", 0, <<e.x, e.y>>)

\* the number of pairs a list of n samples has
PairsOf(n) == IF n >= 1 THEN n - 1 ELSE 0

\* C23: with a mode that is neither 'SN-S' nor 'SN-N' no error comes from the
\* mode (the only errors are a collaborator's or the index error of a short
\* landmark list) and a call that returns has run every pair; both variants are
\* stored on every processed sample; the working coordinate of every sample of
\* either list is its raw coordinate in every state of the call; so the engine
\* reads raw coordinates for both samples of every pair.
C23_OtherModeKeepsRaw ==
    (pc # "idle" /\ ~ValidMode) =>
        /\ \A x \in Range(raised) : x.type \in {"engine", "BA_transform", "IndexError"}
        /\ pc = "returned" =>
            /\ Len(EngineCalls) = PairsOf(Len(models))
            /\ \A k \in 1..Len(EngineCalls) : Attached(k)
        /\ \A k \in 1..Len(align_models) :
            Working(align_models[k]) = RawCoord("models", k - 1)
        /\ \A k \in 1..Len(align_models_ref) :
            Working(align_models_ref[k]) = LandmarkRaw(k - 1)
        /\ \A k \in 1..(Len(EngineList) - 1) :
            Attached(k) =>
                /\ Rigid(EngineList[k + 1]) = RigidOf(EngineCalls[k])
                /\ Nonrigid(EngineList[k + 1]) = NonrigidOf(EngineCalls[k])
        /\ fn = "morpho_align_ref" =>
            \A k \in 1..Len(pis) :
                /\ TransformCalls[k].y = RawCoord("models", k)
                /\ Rigid(align_models[k + 1]) = BARigidOf(TransformCalls[k])
                /\ Nonrigid(align_models[k + 1]) = BANonrigidOf(TransformCalls[k])
        /\ \A j \in 1..Len(EngineCalls) :
            /\ EngineCalls[j].i = j - 1
            /\ EngineCalls[j].x = EngineRaw(j)
            /\ EngineCalls[j].y = EngineRaw(j - 1)

\* morpho_align returned in another mode after two pairs: the second pair read
\* the raw coordinate of sample[1], whose stored variants differ from it
C23_Witness ==
    /\ pc = "returned" /\ fn = "morpho_align" /\ ~ValidMode
    /\ Len(EngineCalls) = 2
    /\ EngineCalls[2].y = RawCoord("models", 1)
    /\ Rigid(align_models[2]) = RigidOf(EngineCalls[1])
    /\ Working(align_models[2]) # Rigid(align_models[2])

\* the same for morpho_align_ref, on the landmarks and on the full-resolution
\* samples
C23_WitnessRef ==
    /\ pc = "returned" /\ fn = "morpho_align_ref" /\ ~ValidMode
    /\ Len(EngineCalls) = 2
    /\ EngineCalls[2].y = LandmarkRaw(1)
    /\ Working(align_models[3]) = RawCoord("models", 2)
    /\ Rigid(align_models[3]) = BARigidOf(TransformCalls[2])

\* the caller supplied a landmark list of this length (-1: none supplied)
GivenRef == IF models_ref = <<>> THEN -1 ELSE Len(models_ref[1])

IndexErrors == {x \in Range(raised) : x.type = "IndexError"}

\* the first pair i with i + 1 >= n
FirstMissing(n) == IF n >= 1 THEN n - 1 ELSE 0

\* what holds of every call of morpho_align_ref with a supplied landmark list:
\* the loop is over len(models)-1 pairs; an index error comes only from a list
\* shorter than `models`, at the first pair i with i+1 >= len(models_ref), after
\* the pairs before it were registered, and nothing is returned; a call that
\* returns has run every pair and hands back every landmark sample, those
\* beyond len(models) with their raw coordinate in all three places.
RefLengthCommon ==
    LET N == Len(models)
        L == GivenRef
    IN /\ \A j \in 1..Len(log) : log[j].ev = "_iteration" => log[j].i = N - 1
       /\ \A j \in 1..Len(EngineCalls) : EngineCalls[j].i + 1 < L
       /\ \A x \in IndexErrors :
           /\ L < N
           /\ x.i = FirstMissing(L)
           /\ Len(EngineCalls) = FirstMissing(L)
           /\ Len(pis) = FirstMissing(L)
           /\ pc = "raised" /\ ret = <<>>
       /\ pc = "returned" =>
           /\ Len(EngineCalls) = PairsOf(N)
           /\ Len(ret[1].align_models_ref) = L
           /\ \A k \in (N + 1)..L :
               /\ Working(ret[1].align_models_ref[k]) = RawCoord("models_ref", k - 1)
               /\ Rigid(ret[1].align_models_ref[k]) = RawCoord("models_ref", k - 1)
               /\ Nonrigid(ret[1].align_models_ref[k]) = RawCoord("models_ref", k - 1)

\* C24 as stated: whenever the supplied landmark list is shorter than `models`
\* the call fails, so it never returns.
C24_RefLength ==
    (fn = "morpho_align_ref" /\ GivenRef >= 0) =>
        /\ RefLengthCommon
        /\ GivenRef < Len(models) => pc # "returned"

\* C24 amended: the call fails whenever the supplied landmark list is shorter
\* than `models` and `models` has at least two samples; a single sample with an
\* empty landmark list has no pair, and that call returns.
C24_RefLengthWithAPair ==
    (fn = "morpho_align_ref" /\ GivenRef >= 0) =>
        /\ RefLengthCommon
        /\ (GivenRef < Len(models) /\ Len(models) >= 2) => pc # "returned"
        /\ (GivenRef < Len(models) /\ Len(models) < 2) =>
               (EngineCalls = <<>> /\ raised = <<>>)

\* three samples, two landmark samples: pair 0 was registered, pair 1 raised
C24_Witness ==
    /\ fn = "morpho_align_ref" /\ Len(models) = 3 /\ GivenRef = 2
    /\ pc = "raised" /\ IndexErrors # {}
    /\ Len(pis) = 1 /\ ret = <<>>

\* two samples, three landmark samples: the call returned and the third
\* landmark sample is as it was copied
C24_WitnessSurplus ==
    /\ fn = "morpho_align_ref" /\ Len(models) = 2 /\ GivenRef = 3
    /\ pc = "returned" /\ ValidMode
    /\ Working(ret[1].align_models_ref[3]) = RawCoord("models_ref", 2)
    /\ Working(ret[1].align_models_ref[2]) # RawCoord("models_ref", 1)

----------------------------------------------------------------------------
\* Logger.request_report_hook (lack.py): the callback a download calls with the
\* block number, the read size and the total size.
\*
\* `logger.report_hook_percent_state` is the Logger's field; `hook` remembers
\* the last call: its arguments, the field before it, and what it did.
\* Fractions are exact.  The code computes them in floating point; the two
\* agree except where a fraction exceeds the state by exactly 0.01, which no
\* sizes used here produce.

MaxBlock == 4

ReadSizes == {1, 50}

\* -1: the size is unknown; 0: the target is empty
TotalSizes == {-1, 0, 3, 150}

\* line 246: cur_percent = rs * bn / ts, for ts # 0
CurPercent(bn, rs, ts) ==
    IF ts < 0 THEN Frac(-(rs * bn), -ts) ELSE Frac(rs * bn, ts)

\* a - b > 0.01
ExceedsHundredth(a, b) == 100 * (a[1] * b[2] - b[1] * a[2]) > a[2] * b[2]

\* lines 244-245: if self.report_hook_percent_state is None: ... = 0
StateOrZero(state) == IF state = None THEN Frac(0, 1) ELSE state

\* line 247: the condition under which the hook reports
HookShouldReport(cur, state) == ExceedsHundredth(cur, state)

\* line 250: if rs * bn >= ts
HookDone(bn, rs, ts) == rs * bn >= ts

HookCall(bn, rs, ts, before, reported, finished, error) ==
    <<[bn |-> bn, rs |-> rs, ts |-> ts, before |-> before, reported |-> reported,
       finished |-> finished, raised |-> error]>>

InitHook ==
    /\ OrchIdle
    /\ OthersIdle

\* request_report_hook(bn, rs, ts) with ts # 0
RequestReportHook ==
    \E bn \in 0..MaxBlock, rs \in ReadSizes, ts \in TotalSizes \ {0} :
        LET state0 == StateOrZero(logger.report_hook_percent_state)
            cur == CurPercent(bn, rs, ts)
            report == HookShouldReport(cur, state0)
            state1 == IF report THEN cur ELSE state0
            done == HookDone(bn, rs, ts)
        IN /\ logger' = [logger EXCEPT !.report_hook_percent_state =
                                          IF done THEN None ELSE state1]
           /\ hook' = HookCall(bn, rs, ts, logger.report_hook_percent_state,
                               report, done, "")
           /\ UNCHANGED <<orchVars, calls, progress, engine, loggers>>

\* request_report_hook(bn, rs, 0): the division of line 246 raises, after
\* line 245 has replaced None by 0
RequestReportHookZeroTotal ==
    \E bn \in 0..MaxBlock, rs \in ReadSizes :
        /\ logger' = [logger EXCEPT !.report_hook_percent_state = StateOrZero(@)]
        /\ hook' = HookCall(bn, rs, 0, logger.report_hook_percent_state,
                            FALSE, FALSE, "ZeroDivisionError")
        /\ UNCHANGED <<orchVars, calls, progress, engine, loggers>>

NextHook ==
    \/ RequestReportHook
    \/ RequestReportHookZeroTotal

SpecHook == InitHook /\ [][NextHook]_vars

\* a <= b
FracLeq(a, b) == a[1] * b[2] <= b[1] * a[2]

\* what the claim says of a call with a total size other than 0
HookStateOfCall(c) ==
    LET cur == CurPercent(c.bn, c.rs, c.ts)
        last == StateOrZero(c.before)
        exceeds == ExceedsHundredth(cur, last)
        now == logger.report_hook_percent_state
    IN /\ c.raised = ""
       /\ c.reported <=> exceeds
       /\ c.rs * c.bn >= c.ts => (now = None /\ c.finished)
       /\ ~(c.rs * c.bn >= c.ts) =>
              /\ ~c.finished
              /\ now = IF exceeds THEN cur ELSE last
              /\ FracLeq(last, now)

\* C22 as stated: the state is None before the first call; a call sets it to
\* the current fraction, and reports, exactly when the fraction exceeds the
\* last state (0 at the start of a download) by more than 0.01; it never
\* decreases during a download; and every call with rs*bn >= ts resets it to
\* None and invokes finish_progress.
C22_HookState ==
    /\ hook = NoHook => logger.report_hook_percent_state = None
    /\ hook # NoHook =>
        /\ hook[1].ts # 0 => HookStateOfCall(hook[1])
        /\ hook[1].rs * hook[1].bn >= hook[1].ts =>
               (logger.report_hook_percent_state = None /\ hook[1].finished)

\* the same for the calls whose total size is not 0
C22_HookStateNonZeroTotal ==
    /\ hook = NoHook => logger.report_hook_percent_state = None
    /\ (hook # NoHook /\ hook[1].ts # 0) => HookStateOfCall(hook[1])

\* a call in the middle of a download that reported: the fraction 4/150
\* exceeded the state 2/150 by more than 0.01
C22_WitnessReport ==
    /\ hook # NoHook
    /\ hook[1].before = Frac(2, 150)
    /\ hook[1].reported /\ ~hook[1].finished
    /\ logger.report_hook_percent_state = Frac(4, 150)

----------------------------------------------------------------------------
\* Logger.__init__ (lack.py) and the logging library's loggers.
\*
\* _logging.getLogger(name) returns the one logger the library keeps for a
\* name.  `loggers.handlers[name]` is that logger's list of handlers; a handler
\* is a number, positive when a Logger made it and negative when it was there
\* before (put by other code).  `loggers.instances` are the Logger objects made
\* so far.

MaxLoggers == 3

MaxPre == 1

\* lines 91-96: the loggers every construction silences
Silenced == {"anndata", "h5py", "numba", "pysam", "pystan"}

NeedsHandlerAlways(handlers) == TRUE

\* line 82: if len(self.logger.handlers) == 0
NeedsHandler(handlers) == Len(handlers) = 0

\* a Logger object: its namespace and its logger_stream_handler
Instance(namespace, handler) ==
    [namespace |-> namespace, logger_stream_handler |-> handler]

InitLoggers ==
    /\ OrchIdle
    /\ logger = NewLogger
    /\ calls = NoCalls
    /\ progress = NoProgress
    /\ engine = NoEngine
    /\ hook = NoHook
    /\ \E pre \in [LoggerNames -> 0..MaxPre] :
        loggers = [NoLoggers EXCEPT
                      !.handlers = [name \in LoggerNames |->
                                       [j \in 1..pre[name] |-> -j]]]

\* Logger(namespace): lines 72-102
LoggerInit ==
    /\ Len(loggers.instances) < MaxLoggers
    /\ \E namespace \in LoggerNames :
        LET handlers == loggers.handlers[namespace]
            new == loggers.made + 1
        IN loggers' =
            IF NeedsHandler(handlers)
            THEN [loggers EXCEPT
                    !.handlers[namespace] = Append(handlers, new),
                    !.made = new,
                    !.silenced = Silenced,
                    !.instances = Append(@, Instance(namespace, new))]
            ELSE [loggers EXCEPT
                    !.silenced = Silenced,
                    !.instances = Append(@, Instance(namespace, handlers[1]))]
    /\ UNCHANGED <<orchVars, logger, calls, progress, engine, hook>>

NextLoggers == LoggerInit

SpecLoggers == InitLoggers /\ [][NextLoggers]_vars

\* the Logger objects made for a name
InstancesOf(name) ==
    {j \in 1..Len(loggers.instances) : loggers.instances[j].namespace = name}

\* the logger of the name had no handler before the first construction
StartedBare(name) ==
    \A j \in 1..Len(loggers.handlers[name]) : loggers.handlers[name][j] > 0

\* C21: for a name whose logger started without handlers, after any number of
\* constructions for any names the logger has exactly one handler as soon as a
\* Logger was made for it (none before), and every Logger made for the name has
\* that handler as its logger_stream_handler.
C21_OneStreamHandler ==
    \A name \in LoggerNames :
        StartedBare(name) =>
            /\ InstancesOf(name) = {} => loggers.handlers[name] = <<>>
            /\ InstancesOf(name) # {} =>
                /\ Len(loggers.handlers[name]) = 1
                /\ \A j \in InstancesOf(name) :
                    loggers.instances[j].logger_stream_handler
                        = loggers.handlers[name][1]

\* three Logger objects for "main", whose logger started bare: one handler,
\* shared by the three
C21_Witness ==
    /\ StartedBare("main")
    /\ Cardinality(InstancesOf("main")) = 3
    /\ Len(loggers.handlers["main"]) = 1
    /\ \A j \in InstancesOf("main") :
        loggers.instances[j].logger_stream_handler = loggers.handlers["main"][1]

====
